---- MODULE Spec2Model ----
(***************************************************************************)
(* State-machine model of stereo_pyspin_gui.py: the UI thread (main() and  *)
(* the widget callbacks it dispatches), the two stream threads, the        *)
(* module-level globals, and the camera-control collaborator               *)
(* (stereo_pyspin) as an environment whose calls either return or raise.   *)
(*                                                                         *)
(* Encoding of Python values: None is 0 for handles, shapes and ids; a     *)
(* frame is known by its shape (pixel values are not modelled) and the     *)
(* None frame is NoneImage; a text is a sequence of one-character strings. *)
(***************************************************************************)
EXTENDS Integers, Sequences, FiniteSets, TLC

VARIABLES
    STREAM,        \* __STREAM_PRIMARY / __STREAM_SECONDARY, by slot
    THREAD,        \* __THREAD_PRIMARY / __THREAD_SECONDARY: 0 (None) or an index into threads
    IMSHOW_DICT,   \* __IMSHOW_<SLOT>_DICT: [imshow, imshow_size]
    HIST_DICT,     \* __HIST_<SLOT>_DICT: [bar]
    GUI_DICT,      \* __GUI_DICT is not None
    figExists,     \* plt.fignum_exists(__GUI_DICT['fig'].number)
    image_axes,    \* per slot, the artists and tick decoration of the image axes
    hist_axes,     \* per slot, the artists and tick decoration of the histogram axes
    threads,       \* every threading.Thread created so far: [slot, pc, image]
    mainpc,        \* position of main()
    cb,            \* the callback the UI thread is running (fn = "none": none)
    uiCalls,       \* collaborator calls made by the current / last UI callback
    acquiring,     \* collaborator side: the slot's camera is acquiring
    closedBoth,    \* history: the window was closed while both slots were streaming
    slider,        \* per parameter: Slider.val
    text,          \* per parameter: TextBox.text
    eventson,      \* per widget: AxesWidget.eventson
    find_text,     \* per slot: the find TextBox's text
    init_text,     \* per slot: the init TextBox's text
    edit           \* the last parameter edit: the input and what its callback did

acqVars == <<STREAM, THREAD, IMSHOW_DICT, HIST_DICT, GUI_DICT, figExists,
             image_axes, hist_axes, threads, mainpc, acquiring, closedBoth>>
widgetVars == <<slider, text, eventson, find_text, init_text, edit>>
vars == <<acqVars, cb, uiCalls, widgetVars>>

--------------------------------------------------------------------------
(* Bounds of the model *)

\* threading.Thread objects created in one run (Start is not offered beyond it)
MaxThreads == 2
\* distinct frame shapes the cameras deliver
NumShapes == 2

--------------------------------------------------------------------------
(* Values *)

Slots == {"primary", "secondary"}
Other(s) == IF s = "primary" THEN "secondary" ELSE "primary"
None == 0

Shapes == 1..NumShapes
NoneImage == [shape |-> None]
Frames == [shape : Shapes]
Images == Frames \cup {NoneImage}
EmptyAxes == [artists |-> {}, ticks |-> "default"]

\* A handle for a newly constructed artist: it differs from the handle of the
\* one artist the dict still references.
Fresh(id) == IF id = 1 THEN 2 ELSE 1

IdleCb == [fn |-> "none", slot |-> "none", pc |-> "none", wrapped |-> FALSE,
           preStream |-> FALSE, preThread |-> None, preThreads |-> 0]

Alive(t) == t.pc \notin {"done", "crashed"}
ThreadsOf(s) == {i \in 1..Len(threads) : threads[i].slot = s}
LiveThreadsOf(s) == {i \in ThreadsOf(s) : Alive(threads[i])}

--------------------------------------------------------------------------
(* Collaborator calls, as the UI thread's callbacks record them *)

NoArg == [kind |-> "none", int |-> 0, str |-> <<>>]
IntArg(n) == [kind |-> "int", int |-> n, str |-> <<>>]
StrArg(t) == [kind |-> "str", int |-> 0, str |-> t]
FloatArg(v) == [kind |-> "float", int |-> v, str |-> <<>>]
Call(fn, s, arg, raised) == [fn |-> fn, slot |-> s, arg |-> arg, raised |-> raised]

--------------------------------------------------------------------------
(* Renderer: __plot_image and __plot_hist *)

\* Axes.cla(): removes every artist and restores the default ticks
cla(axes) == EmptyAxes

\* the four set_*ticklabels([]) / set_*ticks([]) calls
hide_ticks(axes) == [axes EXCEPT !.ticks = "hidden"]

\* Axes.imshow / Axes.bar: the new artist is added to the axes
add_artist(axes, id) == [axes EXCEPT !.artists = @ \cup {id}]

\* variant: the size test always fails
same_size_never(image, imshow_dict) == FALSE

\* image.shape == imshow_dict['imshow_size']
same_size(image, imshow_dict) == image.shape = imshow_dict.imshow_size

plot_image(image, axes, imshow_dict) ==
    IF image # NoneImage
    THEN IF same_size(image, imshow_dict)
         THEN \* imshow_dict['imshow'].set_data(image): same view, same axes
              [dict |-> imshow_dict, axes |-> axes]
         ELSE LET view == Fresh(imshow_dict.imshow)
              IN  [dict |-> [imshow |-> view, imshow_size |-> image.shape],
                   axes |-> hide_ticks(add_artist(cla(axes), view))]
    ELSE [dict |-> imshow_dict, axes |-> axes]

\* variant: the bar test always fails
has_bars_never(hist_dict) == FALSE

\* hist_dict['bar'] is not None
has_bars(hist_dict) == hist_dict.bar # None

\* image.ravel() raises AttributeError on None
plot_hist(image, axes, hist_dict) ==
    IF image = NoneImage
    THEN [raised |-> TRUE, dict |-> hist_dict, axes |-> axes]
    ELSE IF has_bars(hist_dict)
         THEN \* bar.set_height(hist[i]) for every bar: same bars, same axes
              [raised |-> FALSE, dict |-> hist_dict, axes |-> axes]
         ELSE LET bar == Fresh(hist_dict.bar)
              IN  [raised |-> FALSE,
                   dict |-> [bar |-> bar],
                   axes |-> hide_ticks(add_artist(cla(axes), bar))]

--------------------------------------------------------------------------
(* Stream threads: __stream_image_primary / __stream_image_secondary *)

\* the local image is dropped where it is dead: at the loop head (it is rebound
\* before its next use) and when the thread ends
SetPc(i, pc) == [threads EXCEPT ![i].pc = pc,
                                ![i].image = IF pc \in {"plot_image", "plot_hist"}
                                             THEN @ ELSE NoneImage]

\* variant: the exception ends every stream thread
uncaught_ends_all(i) ==
    [j \in 1..Len(threads) |-> [threads[j] EXCEPT !.pc = "crashed", !.image = NoneImage]]

\* an exception raised in the loop body is not caught: it ends the thread's target
uncaught(i) == SetPc(i, "crashed")

\* variant: the loop does not test the stream flag
stream_condition_no_flag(s) ==
    IF ~GUI_DICT THEN "crashed"
    ELSE IF figExists THEN "get" ELSE "done"

\* while __STREAM_<SLOT> and plt.fignum_exists(__GUI_DICT['fig'].number)
stream_condition(s) ==
    IF ~STREAM[s] THEN "done"
    ELSE IF ~GUI_DICT THEN "crashed"       \* None['fig']: TypeError
    ELSE IF figExists THEN "get" ELSE "done"

StreamCheck(i) ==
    /\ threads[i].pc = "check"
    /\ threads' = SetPc(i, stream_condition(threads[i].slot))
    /\ UNCHANGED <<STREAM, THREAD, IMSHOW_DICT, HIST_DICT, GUI_DICT, figExists,
                   image_axes, hist_axes, mainpc, acquiring, closedBoth,
                   cb, uiCalls, widgetVars>>

\* image = stereo_pyspin.get_image_<slot>(): a frame, None, or an exception
StreamGet(i) ==
    /\ threads[i].pc = "get"
    /\ \/ \E img \in Images :
            threads' = [threads EXCEPT ![i].pc = "plot_image", ![i].image = img]
       \/ threads' = uncaught(i)
    /\ UNCHANGED <<STREAM, THREAD, IMSHOW_DICT, HIST_DICT, GUI_DICT, figExists,
                   image_axes, hist_axes, mainpc, acquiring, closedBoth,
                   cb, uiCalls, widgetVars>>

\* variant: a loop renders into the other slot's dicts and axes
records_of_other(t) == Other(t.slot)

\* the slot whose dicts and axes a thread's loop names: __IMSHOW_<SLOT>_DICT,
\* __HIST_<SLOT>_DICT and __GUI_DICT['cam_plot_<slot>_dict']
records_of(t) == t.slot

StreamPlotImage(i) ==
    LET s == records_of(threads[i])
        r == plot_image(threads[i].image, image_axes[s], IMSHOW_DICT[s])
    IN  /\ threads[i].pc = "plot_image"
        /\ IF GUI_DICT
           THEN /\ IMSHOW_DICT' = [IMSHOW_DICT EXCEPT ![s] = r.dict]
                /\ image_axes' = [image_axes EXCEPT ![s] = r.axes]
                /\ threads' = SetPc(i, "plot_hist")
           ELSE /\ threads' = uncaught(i)
                /\ UNCHANGED <<IMSHOW_DICT, image_axes>>
        /\ UNCHANGED <<STREAM, THREAD, HIST_DICT, GUI_DICT, figExists,
                       hist_axes, mainpc, acquiring, closedBoth,
                       cb, uiCalls, widgetVars>>

StreamPlotHist(i) ==
    LET s == records_of(threads[i])
        r == plot_hist(threads[i].image, hist_axes[s], HIST_DICT[s])
    IN  /\ threads[i].pc = "plot_hist"
        /\ IF GUI_DICT /\ ~r.raised
           THEN /\ HIST_DICT' = [HIST_DICT EXCEPT ![s] = r.dict]
                /\ hist_axes' = [hist_axes EXCEPT ![s] = r.axes]
                /\ threads' = SetPc(i, "check")
           ELSE /\ threads' = uncaught(i)
                /\ UNCHANGED <<HIST_DICT, hist_axes>>
        /\ UNCHANGED <<STREAM, THREAD, IMSHOW_DICT, GUI_DICT, figExists,
                       image_axes, mainpc, acquiring, closedBoth,
                       cb, uiCalls, widgetVars>>

--------------------------------------------------------------------------
(* UI thread: callbacks, as wired in __stereo_gui, and direct calls from main. *)
(* A callback that has run to its end rests at pc "return" (and one whose      *)
(* exception the wrapper caught at pc "dialog") before control goes back.      *)

\* variant: main() goes on to the reset after its first direct call
after_call_once(pc) == "reset"

\* what main() does after a direct call returned
after_call(pc) == IF pc = "cleanup_primary" THEN "cleanup_secondary" ELSE "reset"

Goto(pc) == cb' = [cb EXCEPT !.pc = pc] /\ UNCHANGED mainpc

\* variant: the callback is registered without the wrapper
Raise_unwrapped == cb' = IdleCb /\ mainpc' = "raised"

\* The callback raises: __wrapped_func catches it and calls messagebox.showerror;
\* a direct call from main() lets it escape main().
Raise ==
    IF cb.wrapped
    THEN Goto("dialog")
    ELSE cb' = IdleCb /\ mainpc' = "raised"

\* a button of the window can be clicked: main() is in plt.pause and the figure exists
CanClick == mainpc = "loop" /\ figExists /\ cb = IdleCb

\* variants: the streaming test is missing
start_guard_missing(s) == TRUE
stop_guard_missing(s) == TRUE

\* if not __STREAM_<SLOT>:
start_guard(s) == ~STREAM[s]

\* if __STREAM_<SLOT>:
stop_guard(s) == STREAM[s]

\* the first statement a callback reaches
Entry(fn, s) ==
    CASE fn = "start" -> IF start_guard(s) THEN "call" ELSE "return"
      [] fn = "stop" -> IF stop_guard(s) THEN "call" ELSE "return"
      [] OTHER -> "call"

Enter(fn, s, wrapped) ==
    [fn |-> fn, slot |-> s, pc |-> Entry(fn, s), wrapped |-> wrapped,
     preStream |-> STREAM[s], preThread |-> THREAD[s], preThreads |-> Len(threads)]

Click(fn, s) ==
    /\ CanClick
    /\ cb' = Enter(fn, s, TRUE)
    /\ uiCalls' = <<>>
    /\ UNCHANGED <<acqVars, widgetVars>>

ClickFind(s) == Click("find", s)
ClickInit(s) == Click("init", s)
ClickStart(s) == (STREAM[s] \/ Len(threads) < MaxThreads) /\ Click("start", s)
ClickStop(s) == Click("stop", s)

\* the callback returns: to the event loop (a wrapped callback) or to main()
CallbackReturn ==
    /\ cb.pc = "return"
    /\ cb' = IdleCb
    /\ mainpc' = IF cb.wrapped THEN mainpc ELSE after_call(mainpc)
    /\ uiCalls' = <<>>
    /\ UNCHANGED <<STREAM, THREAD, IMSHOW_DICT, HIST_DICT, GUI_DICT, figExists,
                   image_axes, hist_axes, threads, acquiring, closedBoth, widgetVars>>

\* messagebox.showerror returns when the user dismisses the dialog
DismissDialog ==
    /\ cb.pc = "dialog"
    /\ cb' = IdleCb
    /\ uiCalls' = <<>>
    /\ UNCHANGED <<acqVars, widgetVars>>

\* the decimal digits
Digits == {"0", "1", "2", "3", "4", "5", "6", "7", "8", "9"}

\* a character that str.isdigit() accepts and int() / float() do not: the
\* superscript two (U+00B2), written here as the one-character text "sup2"
SuperDigits == {"sup2"}
DigitVal(c) == CASE c = "0" -> 0 [] c = "1" -> 1 [] c = "2" -> 2 [] c = "3" -> 3
                 [] c = "4" -> 4 [] c = "5" -> 5 [] c = "6" -> 6 [] c = "7" -> 7
                 [] c = "8" -> 8 [] c = "9" -> 9

\* the texts int() converts among those isdigit() accepts: decimal digits only
isdecimal(t) == Len(t) > 0 /\ \A i \in 1..Len(t) : t[i] \in Digits

\* str.isdigit(): non-empty, and every character is a digit
isdigit(t) == Len(t) > 0 /\ \A i \in 1..Len(t) : t[i] \in Digits \cup SuperDigits

RECURSIVE int(_)
int(t) == IF t = <<>> THEN 0
          ELSE 10 * int(SubSeq(t, 1, Len(t) - 1)) + DigitVal(t[Len(t)])

\* if find_text.isdigit(): int(find_text) else: find_text
find_arg(t) == IF isdigit(t) THEN IntArg(int(t)) ELSE StrArg(t)

\* the collaborator call of the callback returns or raises
Collaborate(fn, arg, next) ==
    \/ /\ uiCalls' = Append(uiCalls, Call(fn, cb.slot, arg, FALSE))
       /\ Goto(next)
    \/ /\ uiCalls' = Append(uiCalls, Call(fn, cb.slot, arg, TRUE))
       /\ Raise

\* __find_primary / __find_secondary
FindCall ==
    /\ cb.fn = "find" /\ cb.pc = "call"
    /\ IF isdigit(find_text[cb.slot]) /\ ~isdecimal(find_text[cb.slot])
       THEN Raise /\ UNCHANGED uiCalls         \* int(find_text): ValueError
       ELSE Collaborate("find", find_arg(find_text[cb.slot]), "return")
    /\ UNCHANGED <<STREAM, THREAD, IMSHOW_DICT, HIST_DICT, GUI_DICT, figExists,
                   image_axes, hist_axes, threads, acquiring, closedBoth, widgetVars>>

\* __init_primary / __init_secondary
InitCall ==
    /\ cb.fn = "init" /\ cb.pc = "call"
    /\ Collaborate("init", StrArg(init_text[cb.slot]), "return")
    /\ UNCHANGED <<STREAM, THREAD, IMSHOW_DICT, HIST_DICT, GUI_DICT, figExists,
                   image_axes, hist_axes, threads, acquiring, closedBoth, widgetVars>>

\* stereo_pyspin.start_acquisition_<slot>(): the camera acquires once it returned
StartCall ==
    /\ cb.fn = "start" /\ cb.pc = "call"
    /\ Collaborate("start_acquisition", NoArg, "spawn")
    /\ acquiring' = [acquiring EXCEPT ![cb.slot] = @ \/ cb'.pc = "spawn"]
    /\ UNCHANGED <<STREAM, THREAD, IMSHOW_DICT, HIST_DICT, GUI_DICT, figExists,
                   image_axes, hist_axes, threads, closedBoth, widgetVars>>

\* variant: the thread is given the other slot's loop as its target
spawn_other(s) == Append(threads, [slot |-> Other(s), pc |-> "check", image |-> NoneImage])

\* threading.Thread(target=__stream_image_<slot>) and its start()
spawn(s) == Append(threads, [slot |-> s, pc |-> "check", image |-> NoneImage])

\* variant: the flag is not written
started_unflagged(s) == STREAM

\* __STREAM_<SLOT> = True
started(s) == [STREAM EXCEPT ![s] = TRUE]

\* __STREAM_<SLOT> = True; __THREAD_<SLOT> = threading.Thread(...); .start()
StartSpawn ==
    /\ cb.fn = "start" /\ cb.pc = "spawn"
    /\ STREAM' = started(cb.slot)
    /\ threads' = spawn(cb.slot)
    /\ THREAD' = [THREAD EXCEPT ![cb.slot] = Len(threads')]
    /\ Goto("return")
    /\ UNCHANGED <<IMSHOW_DICT, HIST_DICT, GUI_DICT, figExists,
                   image_axes, hist_axes, acquiring, closedBoth, uiCalls, widgetVars>>

\* stereo_pyspin.end_acquisition_<slot>(): the camera stops once it returned
StopCall ==
    /\ cb.fn = "stop" /\ cb.pc = "call"
    /\ Collaborate("end_acquisition", NoArg, "clear")
    /\ acquiring' = [acquiring EXCEPT ![cb.slot] = @ /\ cb'.pc # "clear"]
    /\ UNCHANGED <<STREAM, THREAD, IMSHOW_DICT, HIST_DICT, GUI_DICT, figExists,
                   image_axes, hist_axes, threads, closedBoth, widgetVars>>

\* __STREAM_<SLOT> = False
StopClear ==
    /\ cb.fn = "stop" /\ cb.pc = "clear"
    /\ STREAM' = [STREAM EXCEPT ![cb.slot] = FALSE]
    /\ Goto("join")
    /\ UNCHANGED <<THREAD, IMSHOW_DICT, HIST_DICT, GUI_DICT, figExists,
                   image_axes, hist_axes, threads, acquiring, closedBoth,
                   uiCalls, widgetVars>>

\* variant: the join is missing
joined_at_once(h) == TRUE

\* Thread.join() returns once the thread has terminated
joined(h) == ~Alive(threads[h])

\* __THREAD_<SLOT>.join() (on None the attribute lookup raises AttributeError);
\* __THREAD_<SLOT> = None
StopJoin ==
    /\ cb.fn = "stop" /\ cb.pc = "join"
    /\ IF THREAD[cb.slot] = None
       THEN Raise /\ UNCHANGED THREAD
       ELSE /\ joined(THREAD[cb.slot])
            /\ THREAD' = [THREAD EXCEPT ![cb.slot] = None]
            /\ Goto("return")
    /\ UNCHANGED <<STREAM, IMSHOW_DICT, HIST_DICT, GUI_DICT, figExists,
                   image_axes, hist_axes, threads, acquiring, closedBoth,
                   uiCalls, widgetVars>>

\* texts the user types into a find field: empty, an index, a serial id with a
\* letter, a serial id of digits only, and the superscript two
FindTexts == { <<>>, <<"0">>, <<"A", "1", "2">>, <<"1", "2", "3", "4">>, <<"sup2">> }

\* the user clicks into the find TextBox of slot s and types t
TypeFind(s, t) ==
    /\ CanClick
    /\ t # find_text[s]
    /\ find_text' = [find_text EXCEPT ![s] = t]
    /\ UNCHANGED <<acqVars, cb, uiCalls, slider, text, eventson, init_text, edit>>

--------------------------------------------------------------------------
(* main() *)

Streaming(s) == STREAM[s] /\ LiveThreadsOf(s) # {}

\* the user closes the window while main() is in plt.pause
CloseWindow ==
    /\ CanClick
    /\ figExists' = FALSE
    /\ closedBoth' = \A s \in Slots : Streaming(s)
    /\ UNCHANGED <<STREAM, THREAD, IMSHOW_DICT, HIST_DICT, GUI_DICT,
                   image_axes, hist_axes, threads, mainpc, acquiring,
                   cb, uiCalls, widgetVars>>

\* while plt.fignum_exists(...) ends; print('Exiting...')
MainExitLoop ==
    /\ mainpc = "loop" /\ ~figExists /\ cb = IdleCb
    /\ mainpc' = "cleanup_primary"
    /\ UNCHANGED <<STREAM, THREAD, IMSHOW_DICT, HIST_DICT, GUI_DICT, figExists,
                   image_axes, hist_axes, threads, acquiring, closedBoth,
                   cb, uiCalls, widgetVars>>

\* __stop_acquisition_primary() / __stop_acquisition_secondary(), called directly
MainStop(s) ==
    /\ mainpc = IF s = "primary" THEN "cleanup_primary" ELSE "cleanup_secondary"
    /\ cb = IdleCb
    /\ cb' = Enter("stop", s, FALSE)
    /\ uiCalls' = <<>>
    /\ UNCHANGED <<acqVars, widgetVars>>

\* the four display-state dicts are rebound to fresh dicts, __GUI_DICT = None, return 0
MainReset ==
    /\ mainpc = "reset"
    /\ IMSHOW_DICT' = [s \in Slots |-> [imshow |-> None, imshow_size |-> None]]
    /\ HIST_DICT' = [s \in Slots |-> [bar |-> None]]
    /\ GUI_DICT' = FALSE
    /\ mainpc' = "returned"
    /\ UNCHANGED <<STREAM, THREAD, figExists, image_axes, hist_axes, threads,
                   acquiring, closedBoth, cb, uiCalls, widgetVars>>

--------------------------------------------------------------------------
(* Parameter values and their texts.  A float is counted in millionths    *)
(* (the exposure minimum 5e-6 is 5); str() and float() are Python's, on   *)
(* the texts that consist of a sign, digits, a point and an exponent.     *)

Scale == 10^6

Params == {"fps", "gain", "exposure"}

FPS_MIN == 1
FPS_MAX == 118
GAIN_MIN == 0
GAIN_MAX == 47
\* 5e-6 seconds, in millionths
EXPOSURE_MIN == 5
EXPOSURE_MAX == 30

Min(p) == CASE p = "fps" -> FPS_MIN * Scale
            [] p = "gain" -> GAIN_MIN * Scale
            [] p = "exposure" -> EXPOSURE_MIN
Max(p) == CASE p = "fps" -> FPS_MAX * Scale
            [] p = "gain" -> GAIN_MAX * Scale
            [] p = "exposure" -> EXPOSURE_MAX * Scale

setter(p) == CASE p = "fps" -> "set_frame_rate"
               [] p = "gain" -> "set_gain"
               [] p = "exposure" -> "set_exposure"

RECURSIVE Pow10(_)
Pow10(n) == IF n = 0 THEN 1 ELSE 10 * Pow10(n - 1)

DigitChar(d) == CASE d = 0 -> "0" [] d = 1 -> "1" [] d = 2 -> "2" [] d = 3 -> "3"
                  [] d = 4 -> "4" [] d = 5 -> "5" [] d = 6 -> "6" [] d = 7 -> "7"
                  [] d = 8 -> "8" [] d = 9 -> "9"

RECURSIVE digits(_)
digits(n) == IF n < 10 THEN <<DigitChar(n)>>
             ELSE Append(digits(n \div 10), DigitChar(n % 10))

RECURSIVE strip_zeros(_)
strip_zeros(t) == IF Len(t) > 1 /\ t[Len(t)] = "0"
                  THEN strip_zeros(SubSeq(t, 1, Len(t) - 1)) ELSE t

\* the six fraction digits of n millionths
fraction(n) == LET d == digits(n) IN [i \in 1..(6 - Len(d)) |-> "0"] \o d

\* repr of a non-negative float: fixed notation from 1e-4 on, else d[.d]e-0x
float_repr(v) ==
    IF v = 0 THEN <<"0", ".", "0">>
    ELSE IF v >= Scale \div 10000
    THEN digits(v \div Scale) \o <<".">> \o strip_zeros(fraction(v % Scale))
    ELSE LET m == digits(v)
             mant == IF Len(m) = 1 \/ m[2] = "0" THEN <<m[1]>> ELSE <<m[1], ".", m[2]>>
         IN  mant \o <<"e", "-", "0", IF Len(m) = 1 THEN "6" ELSE "5">>

\* str(val) of a float
str(v) == IF v < 0 THEN <<"-">> \o float_repr(-v) ELSE float_repr(v)

Pos(t, c) == IF \E i \in 1..Len(t) : t[i] = c
             THEN CHOOSE i \in 1..Len(t) : t[i] = c /\ \A j \in 1..(i - 1) : t[j] # c
             ELSE 0

Signed(t) == Len(t) > 0 /\ t[1] \in {"-", "+"}
Unsigned(t) == IF Signed(t) THEN Tail(t) ELSE t
Negative(t) == Signed(t) /\ t[1] = "-"

\* float(text): [ok, val]; ok = FALSE is ValueError
float(t) ==
    LET epos == Pos(t, "e")
        mant == IF epos = 0 THEN t ELSE SubSeq(t, 1, epos - 1)
        expo == IF epos = 0 THEN <<>> ELSE SubSeq(t, epos + 1, Len(t))
        body == Unsigned(mant)
        dpos == Pos(body, ".")
        ip == IF dpos = 0 THEN body ELSE SubSeq(body, 1, dpos - 1)
        fp == IF dpos = 0 THEN <<>> ELSE SubSeq(body, dpos + 1, Len(body))
        ds == ip \o fp
        ok == isdecimal(ds) /\ (epos = 0 \/ isdecimal(Unsigned(expo)))
        x == IF epos = 0 THEN 0
             ELSE IF Negative(expo) THEN 0 - int(Unsigned(expo)) ELSE int(Unsigned(expo))
        pw == 6 - Len(fp) + x
        mag == IF pw >= 0 THEN int(ds) * Pow10(pw) ELSE int(ds) \div Pow10(0 - pw)
    IN  IF ok THEN [ok |-> TRUE, val |-> IF Negative(mant) THEN 0 - mag ELSE mag]
        ELSE [ok |-> FALSE, val |-> 0]

--------------------------------------------------------------------------
(* Slider / text callbacks: __fps_slider, __fps_text and the gain/exposure *)
(* copies.  A callback runs on the state w of one slider/text pair:        *)
(* [slider, text, es, et, calls, warns, raised, nested, trace].            *)

\* nested callback invocations before Python's RecursionError
MaxNesting == 3

Log(w, what) == [w EXCEPT !.trace = Append(@, what)]

\* variant: the exception is not caught
on_error_uncaught(w) == [w EXCEPT !.raised = TRUE]

\* except Exception as e: warn(str(e))
on_error(w) == [w EXCEPT !.warns = @ + 1]

\* try: stereo_pyspin.set_<param>(val)
push(p, w, val, rejects) ==
    LET w1 == Log([w EXCEPT !.calls = Append(@, Call(setter(p), "both", FloatArg(val), rejects))],
                  "call")
    IN  IF rejects THEN on_error(w1) ELSE w1

\* variant: the text box's events are never switched off
text_events_kept(w, on) ==
    Log([w EXCEPT !.et = TRUE], IF on THEN "events_on" ELSE "events_off")

\* __GUI_DICT['<param>_text'].eventson = on
text_events(w, on) ==
    Log([w EXCEPT !.et = on], IF on THEN "events_on" ELSE "events_off")

\* __GUI_DICT['<param>_slider'].eventson = on
slider_events(w, on) ==
    Log([w EXCEPT !.es = on], IF on THEN "events_on" ELSE "events_off")

RECURSIVE slider_callback(_, _, _, _)
RECURSIVE text_callback(_, _, _, _)
RECURSIVE TextBox_set_val(_, _, _, _, _)
RECURSIVE Slider_set_val(_, _, _, _, _)

\* TextBox.set_val(val): no-op on an equal text; else sets the text and, with
\* eventson, runs the submit observers
TextBox_set_val(p, w, val, rejects, fuel) ==
    LET newval == str(val)
        w1 == Log([w EXCEPT !.text = newval], "set_val")
    IN  IF w.text = newval THEN Log(w, "set_val")
        ELSE IF w1.et
        THEN text_callback(p, [w1 EXCEPT !.nested = @ + 1], rejects, fuel - 1)
        ELSE w1

\* Slider.set_val(val): stores val (no clipping) and, with eventson, runs the
\* change observers
Slider_set_val(p, w, val, rejects, fuel) ==
    LET w1 == Log([w EXCEPT !.slider = val], "set_val")
    IN  IF w1.es
        THEN slider_callback(p, [w1 EXCEPT !.nested = @ + 1], rejects, fuel - 1)
        ELSE w1

slider_callback(p, w, rejects, fuel) ==
    IF fuel = 0 THEN [w EXCEPT !.raised = TRUE]
    ELSE LET val == w.slider
             w1 == push(p, w, val, rejects)
             w2 == TextBox_set_val(p, text_events(w1, FALSE), val, rejects, fuel)
         IN  IF w1.raised THEN w1
             ELSE IF w2.raised THEN w2
             ELSE text_events(w2, TRUE)

text_callback(p, w, rejects, fuel) ==
    IF fuel = 0 THEN [w EXCEPT !.raised = TRUE]
    ELSE LET f == float(w.text)
             w1 == push(p, w, f.val, rejects)
             w2 == Slider_set_val(p, slider_events(w1, FALSE), f.val, rejects, fuel)
         IN  IF ~f.ok THEN [w EXCEPT !.raised = TRUE]      \* ValueError
             ELSE IF w1.raised THEN w1
             ELSE IF w2.raised THEN w2
             ELSE slider_events(w2, TRUE)

Pair(p) == [slider |-> slider[p], text |-> text[p],
            es |-> eventson[p].slider, et |-> eventson[p].text,
            calls |-> <<>>, warns |-> 0, raised |-> FALSE, nested |-> 0, trace |-> <<>>]

NoEdit == [param |-> "none", widget |-> "none", val |-> 0, txt |-> <<>>,
           warns |-> 0, escaped |-> FALSE, nested |-> 0, trace |-> <<>>]

\* the callback's effects are stored; an exception that escapes it reaches
\* plt.pause or is swallowed by the backend's event loop
Store(p, w, widget, val, txt) ==
    /\ slider' = [slider EXCEPT ![p] = w.slider]
    /\ text' = [text EXCEPT ![p] = w.text]
    /\ eventson' = [eventson EXCEPT ![p] = [slider |-> w.es, text |-> w.et]]
    /\ uiCalls' = w.calls
    /\ edit' = [param |-> p, widget |-> widget, val |-> val, txt |-> txt,
                warns |-> w.warns, escaped |-> w.raised, nested |-> w.nested,
                trace |-> w.trace]
    /\ mainpc' \in (IF w.raised THEN {"loop", "raised"} ELSE {mainpc})

\* positions the user drags a slider to: Slider._update clips them to [valmin, valmax]
SliderPositions(p) == {Min(p), (Min(p) + Max(p)) \div 2, Max(p)}

\* the user moves the slider of p to v: Slider._update -> set_val -> on_changed
SliderChange(p, v) ==
    /\ CanClick
    /\ v # slider[p]
    /\ \E rejects \in BOOLEAN :
         LET w0 == [Pair(p) EXCEPT !.slider = v]
             w == IF w0.es THEN slider_callback(p, w0, rejects, MaxNesting) ELSE w0
         IN  Store(p, w, "slider", v, <<>>)
    /\ UNCHANGED <<STREAM, THREAD, IMSHOW_DICT, HIST_DICT, GUI_DICT, figExists,
                   image_axes, hist_axes, threads, acquiring, closedBoth,
                   cb, find_text, init_text>>

\* texts the user submits
SubmitTexts == { <<>>, <<"7">>, <<"7", ".", "5">>, <<"2", "0", "0">>,
                 <<"5", "e", "-", "0", "6">> }

\* the user types t into the text box of p and presses Enter:
\* TextBox.stop_typing -> on_submit
TextSubmit(p, t) ==
    /\ CanClick
    /\ \E rejects \in BOOLEAN :
         LET w0 == [Pair(p) EXCEPT !.text = t]
             w == IF w0.et THEN text_callback(p, w0, rejects, MaxNesting) ELSE w0
         IN  Store(p, w, "text", float(t).val, t)
    /\ UNCHANGED <<STREAM, THREAD, IMSHOW_DICT, HIST_DICT, GUI_DICT, figExists,
                   image_axes, hist_axes, threads, acquiring, closedBoth,
                   cb, find_text, init_text>>

--------------------------------------------------------------------------
(* Specifications *)

\* the state once main() has built the GUI (line 565) and entered its loop
Init ==
    /\ STREAM = [s \in Slots |-> FALSE]
    /\ THREAD = [s \in Slots |-> None]
    /\ IMSHOW_DICT = [s \in Slots |-> [imshow |-> None, imshow_size |-> None]]
    /\ HIST_DICT = [s \in Slots |-> [bar |-> None]]
    /\ GUI_DICT = TRUE
    /\ figExists = TRUE
    /\ image_axes = [s \in Slots |-> EmptyAxes]
    /\ hist_axes = [s \in Slots |-> EmptyAxes]
    /\ threads = <<>>
    /\ mainpc = "loop"
    /\ cb = IdleCb
    /\ uiCalls = <<>>
    /\ acquiring = [s \in Slots |-> FALSE]
    /\ closedBoth = FALSE
    /\ slider = [p \in Params |-> Min(p)]
    /\ text = [p \in Params |-> <<>>]
    /\ eventson = [p \in Params |-> [slider |-> TRUE, text |-> TRUE]]
    /\ find_text = [s \in Slots |-> <<>>]
    /\ init_text = [s \in Slots |-> IF s = "primary" THEN "primary.yaml" ELSE "secondary.yaml"]
    /\ edit = NoEdit

\* one step of the i-th thread created in this run
StreamStep(i) ==
    /\ i <= Len(threads)
    /\ (StreamCheck(i) \/ StreamGet(i) \/ StreamPlotImage(i) \/ StreamPlotHist(i))

Stream == \E i \in 1..Len(threads) : StreamStep(i)

Buttons == \E s \in Slots : ClickFind(s) \/ ClickInit(s) \/ ClickStart(s) \/ ClickStop(s)

Callbacks == \/ FindCall \/ InitCall \/ CallbackReturn \/ DismissDialog
             \/ StartCall \/ StartSpawn
             \/ StopCall \/ StopClear \/ StopJoin

Main == CloseWindow \/ MainExitLoop \/ (\E s \in Slots : MainStop(s)) \/ MainReset

\* acquisition and streaming: buttons, stream threads, window close and teardown
Next == Buttons \/ Callbacks \/ Stream \/ Main

Spec == Init /\ [][Next]_vars

\* Scheduling: a stream thread that can take a step eventually takes it (the
\* interpreter switches threads, and a pending get_image_<slot> call ends), and
\* a join whose thread has terminated returns.
Fairness ==
    /\ \A i \in 1..MaxThreads : WF_vars(StreamStep(i))
    /\ WF_vars(StopJoin)

SpecFair == Spec /\ Fairness

\* the find fields and find buttons
NextFind == \/ \E s \in Slots : \E t \in FindTexts : TypeFind(s, t)
            \/ \E s \in Slots : ClickFind(s)
            \/ FindCall \/ CallbackReturn \/ DismissDialog

SpecFind == Init /\ [][NextFind]_vars

\* the three slider/text rows
NextParams == \/ \E p \in Params : \E v \in SliderPositions(p) : SliderChange(p, v)
              \/ \E p \in Params : \E t \in SubmitTexts : TextSubmit(p, t)

SpecParams == Init /\ [][NextParams]_vars

--------------------------------------------------------------------------
(* Properties *)

LastRaised == uiCalls # <<>> /\ uiCalls[Len(uiCalls)].raised
NoLiveThread(s) == LiveThreadsOf(s) = {}

\* C1: Start Acquisition on a slot whose stream flag is set goes straight to its
\* return: no collaborator call is made, no thread is created, and the slot's
\* flag and thread handle are what they were at the click.
C1_StartWhileStreamingIsNoop ==
    (cb.fn = "start" /\ cb.preStream) =>
        /\ cb.pc = "return"
        /\ uiCalls = <<>>
        /\ Len(threads) = cb.preThreads
        /\ STREAM[cb.slot] = cb.preStream
        /\ THREAD[cb.slot] = cb.preThread

C1_Witness ==
    /\ cb.fn = "start" /\ cb.pc = "return" /\ cb.preStream
    /\ Streaming(cb.slot)

\* C2: Stop Acquisition on a slot whose stream flag is clear goes straight to its
\* return: end_acquisition is not called, no join is reached, and the slot's
\* flag and thread handle are what they were at the call.
C2_StopWhileIdleIsNoop ==
    (cb.fn = "stop" /\ ~cb.preStream) =>
        /\ cb.pc = "return"
        /\ uiCalls = <<>>
        /\ STREAM[cb.slot] = cb.preStream
        /\ THREAD[cb.slot] = cb.preThread

C2_Witness ==
    /\ cb.fn = "stop" /\ cb.pc = "return" /\ ~cb.preStream /\ cb.wrapped
    /\ \E s \in Slots : Streaming(s)

C4_CloseStopsBothThreads ==
    closedBoth =>
        /\ mainpc \in {"cleanup_secondary", "reset", "returned"} => NoLiveThread("primary")
        /\ mainpc \in {"reset", "returned"} => NoLiveThread("secondary")

C4_Witness ==
    /\ closedBoth /\ mainpc = "returned"
    /\ \A s \in Slots : ~STREAM[s] /\ THREAD[s] = None /\ ThreadsOf(s) # {}

NumEqual(p) == float(text[p]).ok /\ float(text[p]).val = slider[p]

\* C5: after the callback of any slider or text edit has run, the slider's value
\* and the text box's value of that parameter are numerically equal.
C5_SliderEqualsText ==
    edit.param # "none" => NumEqual(edit.param)

\* C6: an edit makes at most one collaborator call and never runs the paired
\* control's callback; both controls' events are on afterwards; and an edit that
\* carries a value calls the collaborator once, then switches the paired
\* control's events off, sets it to that value, and switches them on again.
C6_NoFeedbackLoop ==
    edit.param # "none" =>
        /\ edit.nested = 0
        /\ Len(uiCalls) <= 1
        /\ eventson[edit.param] = [slider |-> TRUE, text |-> TRUE]
        /\ ~edit.escaped =>
              /\ edit.trace = <<"call", "events_off", "set_val", "events_on">>
              /\ uiCalls = <<Call(setter(edit.param), "both", FloatArg(edit.val),
                                  uiCalls[1].raised)>>
              /\ slider[edit.param] = edit.val
              /\ edit.widget = "slider" => text[edit.param] = str(edit.val)

C6_Witness ==
    /\ edit.param = "fps" /\ edit.widget = "slider" /\ edit.val = Max("fps")
    /\ text["fps"] = <<"1", "1", "8", ".", "0">>
    /\ Len(uiCalls) = 1

\* C7: when the collaborator's setter raised during an edit, the exception did
\* not escape the callback (one warning was issued, main is still in its loop),
\* and both controls hold the submitted value.
C7_RejectedValueStays ==
    (edit.param # "none" /\ LastRaised) =>
        /\ ~edit.escaped
        /\ edit.warns = 1
        /\ mainpc = "loop"
        /\ slider[edit.param] = edit.val
        /\ float(text[edit.param]) = [ok |-> TRUE, val |-> edit.val]
        /\ edit.widget = "text" => text[edit.param] = edit.txt

C7_Witness ==
    /\ edit.param = "gain" /\ edit.widget = "text" /\ LastRaised
    /\ text["gain"] = <<"2", "0", "0">>
    /\ slider["gain"] = 200 * Scale

\* C8: a step of a wrapped button callback never changes the display-state dicts
\* and never ends main; and when the collaborator call of the callback raised,
\* the callback is at the error dialog with the slot's stream flag and thread
\* handle as at the click and no thread created, and dismissing the dialog
\* changes none of them.
C8_FailedButtonChangesNothing ==
    [][(cb' # cb /\ cb.wrapped) =>
          /\ IMSHOW_DICT' = IMSHOW_DICT /\ HIST_DICT' = HIST_DICT
          /\ mainpc' = mainpc
          /\ (uiCalls' # <<>> /\ uiCalls'[Len(uiCalls')].raised) =>
                /\ cb'.pc = "dialog"
                /\ STREAM'[cb.slot] = cb.preStream
                /\ THREAD'[cb.slot] = cb.preThread
                /\ Len(threads') = cb.preThreads
          /\ cb.pc = "dialog" =>
                /\ cb' = IdleCb
                /\ STREAM' = STREAM /\ THREAD' = THREAD /\ threads' = threads]_vars

C8_Witness ==
    /\ cb.fn = "stop" /\ cb.pc = "dialog" /\ LastRaised
    /\ STREAM[cb.slot] /\ THREAD[cb.slot] # None /\ Alive(threads[THREAD[cb.slot]])

\* C9: a render of a non-None frame whose shape equals the recorded size leaves
\* the view and the axes as they are; any other render of a non-None frame puts
\* a new view, alone, on the cleared axes with the ticks hidden; and after either
\* the recorded size is the frame's shape.
C9_ImageRender ==
    [][\A i \in 1..Len(threads) :
          (threads[i].pc = "plot_image" /\ threads'[i].pc = "plot_hist"
             /\ threads[i].image # NoneImage) =>
            LET s == threads[i].slot
                image == threads[i].image
            IN  /\ IMSHOW_DICT'[s].imshow_size = image.shape
                /\ IF image.shape = IMSHOW_DICT[s].imshow_size
                   THEN /\ IMSHOW_DICT'[s].imshow = IMSHOW_DICT[s].imshow
                        /\ image_axes'[s] = image_axes[s]
                   ELSE /\ IMSHOW_DICT'[s].imshow \notin {None, IMSHOW_DICT[s].imshow}
                        /\ image_axes'[s] = [artists |-> {IMSHOW_DICT'[s].imshow},
                                             ticks |-> "hidden"]]_vars

C9_Witness ==
    \E i \in 1..Len(threads) :
        /\ threads[i].pc = "plot_hist" /\ threads[i].image # NoneImage
        /\ IMSHOW_DICT[threads[i].slot] = [imshow |-> 2, imshow_size |-> threads[i].image.shape]
        /\ image_axes[threads[i].slot].artists = {2}

\* C10: once bars are recorded for a slot, no step before main's teardown changes
\* the recorded bars or the histogram axes; and a histogram call that completes
\* with no bars recorded records new bars, alone on the cleared axes.
C10_HistogramBarsCreatedOnce ==
    [][\A s \in Slots :
          /\ (HIST_DICT[s].bar # None /\ mainpc' # "returned") =>
                HIST_DICT'[s] = HIST_DICT[s] /\ hist_axes'[s] = hist_axes[s]
          /\ \A i \in 1..Len(threads) :
                (threads[i].slot = s /\ threads[i].pc = "plot_hist"
                   /\ threads'[i].pc = "check" /\ HIST_DICT[s].bar = None) =>
                  /\ HIST_DICT'[s].bar # None
                  /\ hist_axes'[s] = [artists |-> {HIST_DICT'[s].bar}, ticks |-> "hidden"]]_vars

C10_Witness ==
    /\ Len(threads) = 2 /\ threads[1].slot = threads[2].slot
    /\ threads[2].pc = "plot_hist" /\ threads[2].image # NoneImage
    /\ HIST_DICT[threads[2].slot].bar # None

MainFinished == mainpc \in {"returned", "raised"}

\* sys.exit(main()): main's return value, or 1 when an exception left main
exit_code == IF mainpc = "returned" THEN 0 ELSE 1

EndCalled(s) == \E i \in 1..Len(uiCalls) :
                   uiCalls[i].fn = "end_acquisition" /\ uiCalls[i].slot = s

\* C11 as stated: once the window was closed and main has finished, no slot is
\* left with its stream flag set without end_acquisition_<slot> having been
\* called for it; and when main has returned, both flags are clear, both thread
\* handles are None, the four display-state dicts hold their initial values, the
\* GUI handle is None and the exit code is 0.
C11_CloseTearsDown ==
    /\ MainFinished => \A s \in Slots : STREAM[s] => EndCalled(s)
    /\ mainpc = "returned" =>
          /\ \A s \in Slots : ~STREAM[s] /\ THREAD[s] = None
          /\ IMSHOW_DICT = [s \in Slots |-> [imshow |-> None, imshow_size |-> None]]
          /\ HIST_DICT = [s \in Slots |-> [bar |-> None]]
          /\ ~GUI_DICT
          /\ exit_code = 0

\* the part of C11 that holds: the state in which main returns
C11_ReturnedState ==
    mainpc = "returned" =>
        /\ \A s \in Slots : ~STREAM[s] /\ THREAD[s] = None /\ NoLiveThread(s)
        /\ IMSHOW_DICT = [s \in Slots |-> [imshow |-> None, imshow_size |-> None]]
        /\ HIST_DICT = [s \in Slots |-> [bar |-> None]]
        /\ ~GUI_DICT
        /\ exit_code = 0

\* main was left by the exception of end_acquisition_primary with the secondary
\* slot still flagged as streaming
C11_SecondaryNeverEnded ==
    /\ mainpc = "raised" /\ exit_code = 1
    /\ STREAM["secondary"] /\ acquiring["secondary"] /\ ~EndCalled("secondary")
    /\ GUI_DICT

\* C12: a running stream thread whose slot's flag is clear, or whose window no
\* longer exists, eventually terminates; and a stop action waiting in its join
\* eventually leaves it.
C12_StreamLoopTerminates ==
    /\ \A i \in 1..MaxThreads :
          (/\ i <= Len(threads)
           /\ Alive(threads[i])
           /\ (~STREAM[threads[i].slot] \/ ~figExists))
             ~> (i <= Len(threads) /\ ~Alive(threads[i]))
    /\ (cb.fn = "stop" /\ cb.pc = "join") ~> (cb.pc # "join")

\* the stop action waits in its join, the window exists, and the slot's thread
\* has left its loop because the flag was cleared
C12_Witness ==
    /\ cb.fn = "stop" /\ cb.pc = "join" /\ ~STREAM[cb.slot]
    /\ figExists /\ GUI_DICT
    /\ THREAD[cb.slot] # None /\ threads[THREAD[cb.slot]].pc = "done"

\* C13: a step of a start or stop action on one slot (the click or direct call,
\* the collaborator call whether it returns or raises, the flag and handle
\* writes, the join, the return or the dialog) leaves the other slot's stream
\* flag, thread handle, display-state dicts, camera and stream threads as they
\* are, and every collaborator call the action makes is for its own slot.
C13_SlotsDecoupled ==
    [][\A s \in Slots :
          (cb' # cb /\ (IF cb = IdleCb THEN cb' ELSE cb).fn \in {"start", "stop"}
             /\ (IF cb = IdleCb THEN cb' ELSE cb).slot = s) =>
            LET o == Other(s)
            IN  /\ STREAM'[o] = STREAM[o] /\ THREAD'[o] = THREAD[o]
                /\ IMSHOW_DICT'[o] = IMSHOW_DICT[o] /\ HIST_DICT'[o] = HIST_DICT[o]
                /\ acquiring'[o] = acquiring[o]
                /\ {i \in 1..Len(threads') : threads'[i].slot = o} = ThreadsOf(o)
                /\ \A i \in ThreadsOf(o) : threads'[i] = threads[i]
                /\ \A i \in 1..Len(uiCalls') : uiCalls'[i].slot = s]_vars

\* a start on one slot has created its thread while the other slot's thread is
\* in the middle of an iteration
C13_Witness ==
    /\ cb.fn = "start" /\ cb.pc = "return" /\ ~cb.preStream
    /\ Len(uiCalls) = 1 /\ uiCalls[1].slot = cb.slot
    /\ Streaming(cb.slot) /\ Streaming(Other(cb.slot))
    /\ \E i \in ThreadsOf(Other(cb.slot)) : threads[i].pc = "plot_hist"

\* C14: a step that changes a slot's image dict or histogram dict is a step of
\* a stream thread of that slot or main's reset; and main's reset is taken only
\* when no stream thread of either slot is running.
C14_DictWriters ==
    [][/\ \A s \in Slots :
            (IMSHOW_DICT'[s] # IMSHOW_DICT[s] \/ HIST_DICT'[s] # HIST_DICT[s]) =>
               \/ \E i \in ThreadsOf(s) : threads'[i] # threads[i]
               \/ mainpc = "reset" /\ mainpc' = "returned"
       /\ (mainpc = "reset" /\ mainpc' # mainpc) =>
             \A s \in Slots : NoLiveThread(s)]_vars

\* main has reset the dicts of a slot whose thread had drawn a view and bars;
\* every thread has terminated
C14_Witness ==
    /\ mainpc = "returned"
    /\ \E s \in Slots :
          /\ IMSHOW_DICT[s].imshow = None /\ HIST_DICT[s].bar = None
          /\ image_axes[s].artists # {} /\ hist_axes[s].artists # {}
          /\ ThreadsOf(s) # {}
    /\ \A i \in 1..Len(threads) : ~Alive(threads[i])

\* C15: a step in which a stream thread is ended by an exception of its loop
\* body changes nothing but that thread: main and the current callback, the
\* window, every other thread, and both slots' flags and handles are as they
\* were; and unless the slot's stop action has already cleared the flag and
\* waits in its join, the flag is still set and the handle still names the thread.
C15_StreamErrorEndsOnlyItsThread ==
    [][\A i \in 1..Len(threads) :
          (Alive(threads[i]) /\ threads'[i].pc = "crashed") =>
            LET s == threads[i].slot
            IN  /\ STREAM' = STREAM /\ THREAD' = THREAD
                /\ mainpc' = mainpc /\ cb' = cb /\ figExists' = figExists
                /\ IMSHOW_DICT'[Other(s)] = IMSHOW_DICT[Other(s)]
                /\ HIST_DICT'[Other(s)] = HIST_DICT[Other(s)]
                /\ Len(threads') = Len(threads)
                /\ \A j \in 1..Len(threads) : j # i => threads'[j] = threads[j]
                /\ ~(cb.fn = "stop" /\ cb.slot = s /\ cb.pc = "join") =>
                      STREAM'[s] /\ THREAD'[s] = i]_vars

\* a thread was ended by an exception while main is in its loop with the window
\* open and the other slot's thread is running; the flag is still set
C15_Witness ==
    /\ mainpc = "loop" /\ cb = IdleCb /\ figExists
    /\ \E s \in Slots :
          /\ STREAM[s] /\ THREAD[s] # None /\ threads[THREAD[s]].pc = "crashed"
          /\ LiveThreadsOf(Other(s)) # {}

InRange(p, v) == Min(p) <= v /\ v <= Max(p)

\* C16 as stated: after any edit of a slider or a text box, every value the
\* edit passed to the parameter's setter and the value the parameter's slider
\* holds lie within the parameter's range.
C16_ValuesInRange ==
    edit.param # "none" =>
        /\ \A i \in 1..Len(uiCalls) : InRange(edit.param, uiCalls[i].arg.int)
        /\ InRange(edit.param, slider[edit.param])

\* the text 200 was submitted for the frame rate: set_frame_rate(200.0) was
\* called and returned, and the slider holds 200
C16_OutOfRange ==
    /\ edit.param = "fps" /\ edit.widget = "text" /\ ~edit.escaped
    /\ uiCalls = <<Call("set_frame_rate", "both", FloatArg(200 * Scale), FALSE)>>
    /\ slider["fps"] = 200 * Scale
    /\ 200 * Scale > Max("fps")

FindDone == cb.fn = "find" /\ cb.pc \in {"return", "dialog"}

\* C17 as stated: when the find action has made its call, or ended without
\* one, exactly one find_<slot> call was made, for the action's slot, with the
\* integer value of the field's text if the text is non-empty and all digits
\* and with the text itself otherwise.
C17_FindCalledOnce ==
    FindDone =>
        /\ Len(uiCalls) = 1
        /\ uiCalls[1].fn = "find" /\ uiCalls[1].slot = cb.slot
        /\ uiCalls[1].arg = IF isdigit(find_text[cb.slot])
                            THEN IntArg(int(find_text[cb.slot]))
                            ELSE StrArg(find_text[cb.slot])

\* the part of C17 that holds: for every text but one with a digit that int()
\* does not convert, exactly one call, with the index or the unchanged text
C17_FindIndexOrSerial ==
    (FindDone /\ (isdigit(find_text[cb.slot]) => isdecimal(find_text[cb.slot]))) =>
        /\ Len(uiCalls) = 1
        /\ uiCalls[1].fn = "find" /\ uiCalls[1].slot = cb.slot
        /\ uiCalls[1].arg = IF isdecimal(find_text[cb.slot])
                            THEN IntArg(int(find_text[cb.slot]))
                            ELSE StrArg(find_text[cb.slot])

\* a serial id made of digits only was passed as the index 1234
C17_SerialAsIndex ==
    /\ cb.fn = "find" /\ cb.pc = "return"
    /\ find_text[cb.slot] = <<"1", "2", "3", "4">>
    /\ uiCalls = <<Call("find", cb.slot, IntArg(1234), FALSE)>>

\* the find field holds the superscript two: the action is at the error dialog
\* and find_<slot> was not called
C17_NotCalled ==
    /\ cb.fn = "find" /\ cb.pc = "dialog"
    /\ find_text[cb.slot] = <<"sup2">>
    /\ uiCalls = <<>>

\* C18 as stated: in every state, a slot whose stream flag is set has a running
\* stream thread.
C18_FlagImpliesLiveThread ==
    \A s \in Slots : STREAM[s] => LiveThreadsOf(s) # {}

\* with the window open, Start was refused as already streaming although the
\* slot's thread had been ended by an exception of its loop
C18_StartRefusedWithoutThread ==
    /\ cb.fn = "start" /\ cb.pc = "return" /\ cb.preStream /\ uiCalls = <<>>
    /\ figExists /\ mainpc = "loop"
    /\ STREAM[cb.slot] /\ NoLiveThread(cb.slot)
    /\ threads[THREAD[cb.slot]].pc = "crashed"

\* C19 as stated: every get_image_<slot> call of a stream thread is made while
\* the slot's camera is acquiring, that is after a start_acquisition_<slot>
\* that returned and before the next end_acquisition_<slot> that returned.
C19_GetImageOnlyWhileAcquiring ==
    [][\A i \in 1..Len(threads) :
          (threads[i].pc = "get" /\ threads'[i].pc # "get") =>
              acquiring[threads[i].slot]]_vars

\* the stop action has ended the acquisition and cleared the flag and waits in
\* its join, while the slot's thread, past its loop test, is at its get_image call
C19_GetAfterEnd ==
    /\ cb.fn = "stop" /\ cb.pc = "join"
    /\ uiCalls = <<Call("end_acquisition", cb.slot, NoArg, FALSE)>>
    /\ ~acquiring[cb.slot] /\ ~STREAM[cb.slot]
    /\ threads[THREAD[cb.slot]].pc = "get"

\* no start or stop action is between its first and its last statement
NoActionInProgress == cb.fn \in {"start", "stop"} => cb.pc \in {"return", "dialog"}

FlagMatchesHandle == \A s \in Slots : STREAM[s] <=> THREAD[s] # None

OneThreadPerSlot == \A s \in Slots : Cardinality(LiveThreadsOf(s)) <= 1

\* C20: every step leads to a state in which each slot has at most one running
\* stream thread and in which, unless a start or stop action is in progress,
\* each slot's flag is set exactly when its handle is not None; and a
\* start_acquisition call that returns is made with the slot's camera not
\* acquiring, an end_acquisition call that returns with it acquiring, so that
\* the calls that return alternate, beginning with a start.
C20_FlagHandleThreadConsistent ==
    [][/\ OneThreadPerSlot'
       /\ NoActionInProgress' => FlagMatchesHandle'
       /\ (cb.fn = "start" /\ cb.pc = "call" /\ cb'.pc = "spawn") =>
             ~acquiring[cb.slot] /\ acquiring'[cb.slot]
       /\ (cb.fn = "stop" /\ cb.pc = "call" /\ cb'.pc = "clear") =>
             acquiring[cb.slot] /\ ~acquiring'[cb.slot]
       /\ \A s \in Slots :
             acquiring'[s] # acquiring[s] =>
                cb.slot = s /\ cb.pc = "call" /\ cb'.pc \in {"spawn", "clear"}]_vars

\* a slot was started, stopped and started again: its first thread has
\* terminated, its second is running, and flag and handle are set
C20_Witness ==
    /\ cb = IdleCb /\ mainpc = "loop"
    /\ Len(threads) = 2 /\ threads[1].slot = threads[2].slot
    /\ ~Alive(threads[1]) /\ Alive(threads[2])
    /\ STREAM[threads[2].slot] /\ THREAD[threads[2].slot] = 2
    /\ acquiring[threads[2].slot]

\* C21 as stated: every step of a stream thread that holds a None frame (its
\* __plot_image call and its __plot_hist call) leaves the slot's image dict,
\* histogram dict and axes as they are and leaves the thread running; after
\* the __plot_hist call the thread is back at its loop test.
C21_NoFrameIsSkipped ==
    [][\A i \in 1..Len(threads) :
          (/\ threads[i].pc \in {"plot_image", "plot_hist"}
           /\ threads[i].image = NoneImage
           /\ threads'[i] # threads[i]) =>
            LET s == threads[i].slot
            IN  /\ IMSHOW_DICT'[s] = IMSHOW_DICT[s] /\ HIST_DICT'[s] = HIST_DICT[s]
                /\ image_axes'[s] = image_axes[s] /\ hist_axes'[s] = hist_axes[s]
                /\ Alive(threads'[i])
                /\ threads[i].pc = "plot_hist" => threads'[i].pc = "check"]_vars

\* the part of C21 that holds: a None frame changes no display state, and the
\* __plot_image call on it returns
C21_NoFrameDrawsNothing ==
    [][\A i \in 1..Len(threads) :
          (/\ threads[i].pc \in {"plot_image", "plot_hist"}
           /\ threads[i].image = NoneImage
           /\ threads'[i] # threads[i]) =>
            LET s == threads[i].slot
            IN  /\ IMSHOW_DICT'[s] = IMSHOW_DICT[s] /\ HIST_DICT'[s] = HIST_DICT[s]
                /\ image_axes'[s] = image_axes[s] /\ hist_axes'[s] = hist_axes[s]
                /\ threads[i].pc = "plot_image" => threads'[i].pc = "plot_hist"
                /\ threads[i].pc = "plot_hist" => threads'[i].pc = "crashed"]_vars

\* with the flag set and the window open, a thread that has drawn frames before
\* is at its __plot_hist call with a None frame: image.ravel() raises
C21_NoFrameAtHist ==
    \E i \in 1..Len(threads) :
        /\ threads[i].pc = "plot_hist" /\ threads[i].image = NoneImage
        /\ STREAM[threads[i].slot] /\ THREAD[threads[i].slot] = i
        /\ figExists /\ GUI_DICT /\ mainpc = "loop"
        /\ HIST_DICT[threads[i].slot].bar # None
        /\ plot_hist(threads[i].image, hist_axes[threads[i].slot],
                     HIST_DICT[threads[i].slot]).raised

====
